---- MODULE Spec2Model ----
(***************************************************************************)
(* Card presence and read orchestration of the Thai ID card reader server. *)
(*                                                                         *)
(* The model follows api_server/services/card_monitor.py                   *)
(* (CardMonitorService) and the two REST handlers of                       *)
(* api_server/routes/api.py that call into it (read_card, clear_cache).    *)
(*                                                                         *)
(* The service runs on one asyncio event loop: code between two awaits is  *)
(* atomic, and every await (a broadcast, asyncio.sleep, asyncio.to_thread) *)
(* is a point where another coroutine may run.  Each action below is the   *)
(* code of one coroutine from one suspension point to the next.  The       *)
(* coroutines are the polling loop (task "poll") and one REST read request *)
(* per client.  The reader driver (pythaiidcard.ThaiIDCardReader) and the  *)
(* physical reader and card are the environment.                           *)
(*                                                                         *)
(* The passcode store of api_server/auth.py (PasscodeManager) is modelled  *)
(* beside it: its state is the passcode file, its operations are atomic    *)
(* (the handlers of routes/api.py that call them have no await).           *)
(***************************************************************************)
EXTENDS Integers, Sequences, FiniteSets, TLC

\* ---------------------------------------------------------------- bounds
MaxInsertions == 2
MaxHandles == 2
MaxClock == 1
MaxBalance == 1
MaxLen == 2
MaxTick == 2

\* ------------------------------------------------------------- constants
None == "None"
ReaderNames == {"ACS Reader 0"}
Clients == {"c1", "c2"}
Poll == "poll"
Tasks == {Poll} \cup Clients

\* The absent record (Optional[ThaiIDCard] = None) and the absent timestamp.
NoRec == [ins |-> 0, photo |-> FALSE]
NoTime == 0

\* Driver faults (pythaiidcard.exceptions) and a fault outside that set.
Recoverable == {"NoCardDetectedError", "CardConnectionError", "DataReadError", "CommandError"}
ConnectFaults == {"NoCardDetectedError", "CardConnectionError"}
Faults == Recoverable \cup {"Exception"}

VARIABLES
    \* the physical world
    attached,            \* name of the reader plugged in, or None
    cardSeated,          \* a card sits in the reader
    physIns,             \* number of the current (or last) physical insertion
    \* the driver
    handles,             \* handles[h]: "free" (no such object), "open", "lost" (card or reader
                         \* gone), "closed" (disconnect called)
    \* CardMonitorService fields
    monitoring,
    last_card_data,
    reader,              \* 0 is None, else an index into handles
    current_reader_name,
    card_present,
    auto_read_on_insert,
    cache_valid,
    last_read_timestamp,
    \* the coroutines
    pc,                  \* pc[t]: where task t is suspended
    hnd,                 \* hnd[t]: the handle the worker thread of t reads from (0: none)
    arg,                 \* arg[t]: include_photo of the read in flight
    made,                \* made[t]: the handle new_reader of t's reconnect refers to, until
                         \* read_and_broadcast returns (0: none)
    outcome,             \* outcome[c]: the type of the event that request c's
                         \* read_and_broadcast ended with, until c has responded ("": none)
    \* what the last step delivered
    response,            \* the CardReadResponse the last step returned to its REST caller, if any
    cleared,             \* what the last step's clear_cache returned ("True", "False"), None if
                         \* the last step was no clear_cache
    emitted,             \* the events the last step broadcast, in order
    disconnected,        \* the handle the last step called disconnect on (0: none)
    \* history of the broadcast stream
    removed_since_read,  \* a CardRemoved was broadcast and no CardRead(cached=false) since
    balance,             \* CardInserted events broadcast minus CardRemoved events broadcast
    announced,           \* a CardInserted was broadcast during the insertion going on, and
                         \* no CardRemoved since
    clock,               \* datetime.now(), advanced by every successful read
    \* PasscodeManager
    passcode_file,       \* {} when passcode.json does not exist, else {its text}
    current,             \* {the passcode the last regenerate_passcode returned}, {} before
                         \* the first one and after a delete_passcode
    result,              \* the PasscodeManager call of the last step, its argument and what
                         \* it returned (NoResult if the last step called none)
    now                  \* datetime.utcnow()

phys == <<attached, cardSeated, physIns>>
cache == <<last_card_data, cache_valid, last_read_timestamp>>
conn == <<reader, card_present, handles>>
mon == <<monitoring, current_reader_name, auto_read_on_insert>>
coro == <<pc, hnd, arg>>
req == <<made, outcome>>
hist == <<removed_since_read, balance, announced>>
auth == <<passcode_file, current, result, now>>
monitor == <<phys, handles, monitoring, last_card_data, reader, current_reader_name,
             card_present, auto_read_on_insert, cache_valid, last_read_timestamp,
             pc, hnd, arg, made, outcome, response, cleared, emitted, disconnected,
             removed_since_read, balance, announced, clock>>
vars == <<monitor, auth>>

\* ---------------------------------------------------------------- events
Event(type, tag, rec, at) == [type |-> type, tag |-> tag, rec |-> rec, at |-> at]
ReaderStatus(status) == Event("reader_status", status, NoRec, NoTime)
CardInserted == Event("card_inserted", "", NoRec, NoTime)
CardRemoved == Event("card_removed", "", NoRec, NoTime)
CardRead(rec, cached, at) == Event("card_read", IF cached THEN "cached" ELSE "fresh", rec, at)
Error(code) == Event("error", code, NoRec, NoTime)

\* connection_manager.broadcast(event): the event joins the stream.
broadcast_event(e) ==
    /\ e.type = "card_inserted" => balance < MaxBalance
    /\ e.type = "card_removed" => balance > -MaxBalance
    /\ emitted' = <<e>>
    /\ removed_since_read' =
          IF e.type = "card_removed" THEN TRUE
          ELSE IF e.type = "card_read" /\ e.tag = "fresh" THEN FALSE
          ELSE removed_since_read
    /\ balance' =
          IF e.type = "card_inserted" THEN balance + 1
          ELSE IF e.type = "card_removed" THEN balance - 1
          ELSE balance
    /\ announced' =
          IF e.type = "card_inserted" THEN TRUE
          ELSE IF e.type = "card_removed" THEN FALSE
          ELSE announced

\* A step that broadcasts nothing.
Silent ==
    /\ emitted' = <<>>
    /\ UNCHANGED hist

\* A step that calls disconnect on no handle.
NoDisconnect == disconnected' = 0

\* A step of the environment that may begin an insertion: nothing is
\* broadcast, and a new insertion has not been announced yet.
Begins ==
    /\ emitted' = <<>>
    /\ announced' = (announced /\ physIns' = physIns)
    /\ UNCHANGED <<removed_since_read, balance>>

\* read_and_broadcast returns to task t after a last broadcast of this type.
Ended(t, type) ==
    outcome' = IF t \in Clients THEN [outcome EXCEPT ![t] = type] ELSE outcome

NoResponse == [success |-> FALSE, data |-> NoRec, error |-> ""]

NoResult == [op |-> "", arg |-> <<>>, ret |-> None]

Init ==
    /\ attached = None
    /\ cardSeated = FALSE
    /\ physIns = 0
    /\ handles = [h \in 1..MaxHandles |-> "free"]
    /\ monitoring = FALSE
    /\ last_card_data = NoRec
    /\ reader = 0
    /\ current_reader_name = None
    /\ card_present = FALSE
    /\ auto_read_on_insert \in BOOLEAN
    /\ cache_valid = FALSE
    /\ last_read_timestamp = NoTime
    /\ pc = [t \in Tasks |-> IF t = Poll THEN "init" ELSE "idle"]
    /\ hnd = [t \in Tasks |-> 0]
    /\ arg = [t \in Tasks |-> FALSE]
    /\ made = [t \in Tasks |-> 0]
    /\ outcome = [c \in Clients |-> ""]
    /\ response = NoResponse
    /\ cleared = None
    /\ emitted = <<>>
    /\ disconnected = 0
    /\ removed_since_read = FALSE
    /\ balance = 0
    /\ announced = FALSE
    /\ clock = 0
    /\ passcode_file = {}
    /\ current = {}
    /\ result = NoResult
    /\ now = 0

\* A step that returns nothing to a REST caller.
NoReply ==
    /\ response' = NoResponse
    /\ cleared' = None

\* ------------------------------------------------------- the environment
\* An insertion begins when a card becomes reachable: a card is put into a
\* plugged reader, or a reader holding a card is plugged in.
PlugReader ==
    /\ attached = None
    /\ cardSeated => physIns < MaxInsertions
    /\ \E n \in ReaderNames : attached' = n
    /\ physIns' = IF cardSeated THEN physIns + 1 ELSE physIns
    /\ Begins
    /\ NoReply /\ NoDisconnect
    /\ UNCHANGED <<cardSeated, handles, cache, reader, card_present, mon, coro, req, clock, auth>>

\* Every open handle loses its card when the reader or the card goes away.
Drop(hs) == [h \in DOMAIN hs |-> IF hs[h] = "open" THEN "lost" ELSE hs[h]]

UnplugReader ==
    /\ attached # None
    /\ attached' = None
    /\ handles' = Drop(handles)
    /\ Silent /\ NoReply /\ NoDisconnect
    /\ UNCHANGED <<cardSeated, physIns, cache, reader, card_present, mon, coro, req, clock, auth>>

InsertCard ==
    /\ ~cardSeated
    /\ attached # None => physIns < MaxInsertions
    /\ cardSeated' = TRUE
    /\ physIns' = IF attached # None THEN physIns + 1 ELSE physIns
    /\ Begins
    /\ NoReply /\ NoDisconnect
    /\ UNCHANGED <<attached, handles, cache, reader, card_present, mon, coro, req, clock, auth>>

RemoveCard ==
    /\ cardSeated
    /\ cardSeated' = FALSE
    /\ handles' = Drop(handles)
    /\ Silent /\ NoReply /\ NoDisconnect
    /\ UNCHANGED <<attached, physIns, cache, reader, card_present, mon, coro, req, clock, auth>>

\* ------------------------------------------------------------ the driver
\* ThaiIDCardReader(reader_index=0).connect(): a handle when a card is seated
\* in a plugged reader, else a typed fault.  With no reader plugged the
\* driver reports a connection fault or a fault outside both except clauses.
ConnectOutcomes ==
    IF attached # None /\ cardSeated THEN {"ok"}
    ELSE IF attached # None THEN {"NoCardDetectedError"}
    ELSE {"CardConnectionError", "Exception"}

\* ThaiIDCardReader.read_card on handle h: the record of the seated card, or
\* a fault (a card reset can fail a read of a seated card); a handle whose
\* card is gone or that was disconnected under the read only faults.
ReadOutcomes(h) ==
    IF handles[h] = "open" THEN {"ok"} \cup Faults
    ELSE IF handles[h] = "lost" THEN ConnectFaults
    ELSE {"CardConnectionError"}

disconnect(hs, h) == IF h # 0 THEN [hs EXCEPT ![h] = "closed"] ELSE hs

\* A new ThaiIDCardReader object: distinct from every handle still referenced.
CanConnect == \E h \in DOMAIN handles : handles[h] = "free"
NewHandle == CHOOSE h \in DOMAIN handles :
                 /\ handles[h] = "free"
                 /\ \A g \in DOMAIN handles : handles[g] = "free" => h <= g

\* A handle object exists as long as self.reader, a worker thread or the
\* local new_reader of a reconnect refers to it.
Collect(hs, rd, hd, md) ==
    [h \in DOMAIN hs |->
        IF h = rd \/ \E t \in Tasks : hd[t] = h \/ md[t] = h THEN hs[h] ELSE "free"]

\* Where a task goes when read_and_broadcast returns: the polling loop goes
\* to sleep, a REST request goes on to build its response.
Return(t) == IF t = Poll THEN "sleep" ELSE "respond"

\* -------------------------------------------------- _check_card_presence
\* _check_card_presence without its early return (lines 155-157 dropped):
\* every poll iteration probes the reader with a connect.
CheckCardPresenceAlwaysProbes ==
    \E o \in ConnectOutcomes :
         \/ /\ o = "ok"
            /\ CanConnect
            /\ reader' = NewHandle
            /\ handles' = Collect([handles EXCEPT ![NewHandle] = "open"], reader', hnd, made)
            /\ card_present' = TRUE
            /\ broadcast_event(CardInserted)
            /\ NoDisconnect
            /\ pc' = [pc EXCEPT ![Poll] = IF auto_read_on_insert THEN "inserted" ELSE "sleep"]
            /\ UNCHANGED cache_valid
         \/ /\ o \in ConnectFaults
            /\ IF card_present
               THEN /\ card_present' = FALSE
                    /\ cache_valid' = FALSE
                    /\ reader' = 0
                    /\ handles' = Collect(disconnect(handles, reader), reader', hnd, made)
                    /\ disconnected' = reader
                    /\ broadcast_event(CardRemoved)
               ELSE /\ Silent /\ NoDisconnect
                    /\ UNCHANGED <<conn, cache_valid>>
            /\ pc' = [pc EXCEPT ![Poll] = "sleep"]
         \/ /\ o = "Exception"
            /\ pc' = [pc EXCEPT ![Poll] = "sleep"]
            /\ Silent /\ NoDisconnect
            /\ UNCHANGED <<conn, cache_valid>>

\* card_monitor.py 145-209, up to the await of its broadcast.
CheckCardPresence ==
    IF card_present /\ reader # 0
    THEN /\ pc' = [pc EXCEPT ![Poll] = "sleep"]
         /\ Silent /\ NoDisconnect
         /\ UNCHANGED <<conn, cache_valid>>
    ELSE \E o \in ConnectOutcomes :
         \/ /\ o = "ok"
            /\ CanConnect
            /\ reader' = NewHandle
            /\ handles' = Collect([handles EXCEPT ![NewHandle] = "open"], reader', hnd, made)
            /\ card_present' = TRUE
            /\ broadcast_event(CardInserted)
            /\ NoDisconnect
            /\ pc' = [pc EXCEPT ![Poll] = IF auto_read_on_insert THEN "inserted" ELSE "sleep"]
            /\ UNCHANGED cache_valid
         \/ /\ o \in ConnectFaults
            /\ IF card_present
               THEN /\ card_present' = FALSE
                    /\ cache_valid' = FALSE
                    /\ reader' = 0
                    /\ handles' = Collect(disconnect(handles, reader), reader', hnd, made)
                    /\ disconnected' = reader
                    /\ broadcast_event(CardRemoved)
               ELSE /\ Silent /\ NoDisconnect
                    /\ UNCHANGED <<conn, cache_valid>>
            /\ pc' = [pc EXCEPT ![Poll] = "sleep"]
         \/ /\ o = "Exception"
            /\ pc' = [pc EXCEPT ![Poll] = "sleep"]
            /\ Silent /\ NoDisconnect
            /\ UNCHANGED <<conn, cache_valid>>

\* -------------------------------------------------------- _check_readers
\* card_monitor.py 100-143, up to its first await.
CheckReaders ==
    IF attached = None
    THEN /\ IF current_reader_name # None
            THEN /\ broadcast_event(ReaderStatus("no_readers"))
                 /\ pc' = [pc EXCEPT ![Poll] = "no_readers"]
            ELSE /\ pc' = [pc EXCEPT ![Poll] = "sleep"]
                 /\ Silent
         /\ NoDisconnect
         /\ UNCHANGED <<conn, cache_valid, current_reader_name>>
    ELSE IF attached # current_reader_name
    THEN /\ current_reader_name' = attached
         /\ broadcast_event(ReaderStatus("reader_connected"))
         /\ pc' = [pc EXCEPT ![Poll] = "reader_connected"]
         /\ NoDisconnect
         /\ UNCHANGED <<conn, cache_valid>>
    ELSE /\ CheckCardPresence
         /\ UNCHANGED current_reader_name

\* ------------------------------------------------------ start_monitoring
\* The loop is entered: monitoring is set and the first poll runs.
StartMonitoring ==
    /\ pc[Poll] = "init"
    /\ monitoring' = TRUE
    /\ CheckReaders
    /\ NoReply
    /\ UNCHANGED <<phys, last_card_data, last_read_timestamp, auto_read_on_insert,
                   hnd, arg, req, clock, auth>>

\* The loop as "while True" (the test of line 67 dropped): it polls again
\* whatever self.monitoring says.
PollWakeIgnoresStop ==
    /\ pc[Poll] = "sleep"
    /\ CheckReaders
    /\ NoReply
    /\ UNCHANGED <<phys, monitoring, last_card_data, last_read_timestamp,
                   auto_read_on_insert, hnd, arg, req, clock, auth>>

\* The sleep ends: the loop tests self.monitoring and polls again or exits.
PollWake ==
    /\ pc[Poll] = "sleep"
    /\ IF monitoring
       THEN CheckReaders
       ELSE /\ pc' = [pc EXCEPT ![Poll] = "done"]
            /\ Silent /\ NoDisconnect
            /\ UNCHANGED <<conn, cache_valid, current_reader_name>>
    /\ NoReply
    /\ UNCHANGED <<phys, monitoring, last_card_data, last_read_timestamp,
                   auto_read_on_insert, hnd, arg, req, clock, auth>>

\* A poll iteration whose list_readers raises, with no except clause to
\* catch it (lines 142-143 and 70-78 dropped): the loop ends.
PollListFaultEnds ==
    /\ \/ pc[Poll] = "init"
       \/ pc[Poll] = "sleep" /\ monitoring
    /\ monitoring' = TRUE
    /\ pc' = [pc EXCEPT ![Poll] = "done"]
    /\ Silent /\ NoReply /\ NoDisconnect
    /\ UNCHANGED <<phys, conn, cache, current_reader_name, auto_read_on_insert,
                   hnd, arg, req, clock, auth>>

\* A poll iteration whose list_readers raises: _check_readers logs the fault
\* (lines 142-143) and the loop goes to sleep.
PollListFault ==
    /\ \/ pc[Poll] = "init"
       \/ pc[Poll] = "sleep" /\ monitoring
    /\ monitoring' = TRUE
    /\ pc' = [pc EXCEPT ![Poll] = "sleep"]
    /\ Silent /\ NoReply /\ NoDisconnect
    /\ UNCHANGED <<phys, conn, cache, current_reader_name, auto_read_on_insert,
                   hnd, arg, req, clock, auth>>

\* The no-readers branch without line 119: card_present is left as it was.
PollNoReadersKeepsCard ==
    /\ pc[Poll] = "no_readers"
    /\ current_reader_name' = None
    /\ pc' = [pc EXCEPT ![Poll] = "sleep"]
    /\ Silent /\ NoReply /\ NoDisconnect
    /\ UNCHANGED <<phys, handles, reader, card_present, monitoring, cache,
                   auto_read_on_insert, hnd, arg, req, clock, auth>>

\* _check_readers resumes after the no_readers broadcast (lines 118-120).
PollNoReaders ==
    /\ pc[Poll] = "no_readers"
    /\ current_reader_name' = None
    /\ card_present' = FALSE
    /\ pc' = [pc EXCEPT ![Poll] = "sleep"]
    /\ Silent /\ NoReply /\ NoDisconnect
    /\ UNCHANGED <<phys, handles, reader, monitoring, cache, auto_read_on_insert,
                   hnd, arg, req, clock, auth>>

\* _check_readers resumes after the reader_connected broadcast (line 140).
PollReaderConnected ==
    /\ pc[Poll] = "reader_connected"
    /\ CheckCardPresence
    /\ NoReply
    /\ UNCHANGED <<phys, monitoring, current_reader_name, last_card_data,
                   last_read_timestamp, auto_read_on_insert, hnd, arg, req, clock, auth>>

\* ---------------------------------------------------- read_and_broadcast
\* read_and_broadcast without its cache check (lines 219-242 dropped).
ReadBeginNoCache(t, include_photo) ==
    IF reader = 0
    THEN /\ broadcast_event(Error("NO_READER_CONNECTION"))
         /\ pc' = [pc EXCEPT ![t] = Return(t)]
         /\ Ended(t, "error")
         /\ UNCHANGED <<hnd, arg>>
    ELSE /\ pc' = [pc EXCEPT ![t] = "reading"]
         /\ hnd' = [hnd EXCEPT ![t] = reader]
         /\ arg' = [arg EXCEPT ![t] = include_photo]
         /\ Silent
         /\ UNCHANGED outcome

\* read_and_broadcast reporting a missing handle as a failed read
\* (error_code of line 250 changed to CARD_READ_ERROR).
ReadBeginReadError(t, include_photo) ==
    IF cache_valid /\ last_card_data # NoRec
    THEN /\ broadcast_event(CardRead(last_card_data, TRUE, last_read_timestamp))
         /\ pc' = [pc EXCEPT ![t] = Return(t)]
         /\ Ended(t, "card_read")
         /\ UNCHANGED <<hnd, arg>>
    ELSE IF reader = 0
    THEN /\ broadcast_event(Error("CARD_READ_ERROR"))
         /\ pc' = [pc EXCEPT ![t] = Return(t)]
         /\ Ended(t, "error")
         /\ UNCHANGED <<hnd, arg>>
    ELSE /\ pc' = [pc EXCEPT ![t] = "reading"]
         /\ hnd' = [hnd EXCEPT ![t] = reader]
         /\ arg' = [arg EXCEPT ![t] = include_photo]
         /\ Silent
         /\ UNCHANGED outcome

\* card_monitor.py 219-260: from the call to the first await.  A valid cache
\* is served without touching the driver; otherwise the read is handed to a
\* worker thread on the handle held at that moment.
ReadBegin(t, include_photo) ==
    IF cache_valid /\ last_card_data # NoRec
    THEN /\ broadcast_event(CardRead(last_card_data, TRUE, last_read_timestamp))
         /\ pc' = [pc EXCEPT ![t] = Return(t)]
         /\ Ended(t, "card_read")
         /\ UNCHANGED <<hnd, arg>>
    ELSE IF reader = 0
    THEN /\ broadcast_event(Error("NO_READER_CONNECTION"))
         /\ pc' = [pc EXCEPT ![t] = Return(t)]
         /\ Ended(t, "error")
         /\ UNCHANGED <<hnd, arg>>
    ELSE /\ pc' = [pc EXCEPT ![t] = "reading"]
         /\ hnd' = [hnd EXCEPT ![t] = reader]
         /\ arg' = [arg EXCEPT ![t] = include_photo]
         /\ Silent
         /\ UNCHANGED outcome

\* The automatic read with include_photo=False (line 182 changed).
PollAutoReadNoPhoto ==
    /\ pc[Poll] = "inserted"
    /\ ReadBegin(Poll, FALSE)
    /\ NoReply /\ NoDisconnect
    /\ UNCHANGED <<phys, conn, mon, cache, made, clock, auth>>

\* _check_card_presence resumes after the CardInserted broadcast with
\* auto_read_on_insert set (line 182).
PollAutoRead ==
    /\ pc[Poll] = "inserted"
    /\ ReadBegin(Poll, TRUE)
    /\ NoReply /\ NoDisconnect
    /\ UNCHANGED <<phys, conn, mon, cache, made, clock, auth>>

\* read_and_broadcast with DataReadError and CommandError taken out of the
\* except clause of line 291: they fall to the handler of lines 340-348.
ReadResultSurfacesFailure(t, o) ==
    /\ pc[t] = "reading"
    /\ o \in ReadOutcomes(hnd[t])
    /\ hnd' = [hnd EXCEPT ![t] = 0]
    /\ arg' = [arg EXCEPT ![t] = FALSE]
    /\   \/ /\ o = "ok"
            /\ clock < MaxClock
            /\ clock' = clock + 1
            /\ last_card_data' = [ins |-> physIns, photo |-> arg[t]]
            /\ cache_valid' = TRUE
            /\ last_read_timestamp' = clock'
            /\ broadcast_event(CardRead(last_card_data', FALSE, last_read_timestamp'))
            /\ pc' = [pc EXCEPT ![t] = Return(t)]
            /\ Ended(t, "card_read")
            /\ handles' = Collect(handles, reader, hnd', made)
            /\ NoDisconnect
            /\ UNCHANGED <<reader, card_present>>
         \/ /\ o \in ConnectFaults
            /\ reader' = 0
            /\ handles' = Collect(disconnect(handles, reader), reader', hnd', made)
            /\ disconnected' = reader
            /\ pc' = [pc EXCEPT ![t] = "stabilize"]
            /\ Silent
            /\ UNCHANGED <<card_present, cache, clock, outcome>>
         \/ /\ o \in {"DataReadError", "CommandError", "Exception"}
            /\ broadcast_event(Error("CARD_READ_ERROR"))
            /\ pc' = [pc EXCEPT ![t] = Return(t)]
            /\ Ended(t, "error")
            /\ handles' = Collect(handles, reader, hnd', made)
            /\ NoDisconnect
            /\ UNCHANGED <<reader, card_present, cache, clock>>
    /\ NoReply
    /\ UNCHANGED <<phys, mon, made, auth>>

\* read_and_broadcast whose except clause of line 291 catches every
\* exception: the handler of lines 340-348 is never reached.
ReadResultDropsOnAnyFault(t, o) ==
    /\ pc[t] = "reading"
    /\ o \in ReadOutcomes(hnd[t])
    /\ hnd' = [hnd EXCEPT ![t] = 0]
    /\ arg' = [arg EXCEPT ![t] = FALSE]
    /\   \/ /\ o = "ok"
            /\ clock < MaxClock
            /\ clock' = clock + 1
            /\ last_card_data' = [ins |-> physIns, photo |-> arg[t]]
            /\ cache_valid' = TRUE
            /\ last_read_timestamp' = clock'
            /\ broadcast_event(CardRead(last_card_data', FALSE, last_read_timestamp'))
            /\ pc' = [pc EXCEPT ![t] = Return(t)]
            /\ Ended(t, "card_read")
            /\ handles' = Collect(handles, reader, hnd', made)
            /\ NoDisconnect
            /\ UNCHANGED <<reader, card_present>>
         \/ /\ o \in Faults
            /\ reader' = 0
            /\ handles' = Collect(disconnect(handles, reader), reader', hnd', made)
            /\ disconnected' = reader
            /\ pc' = [pc EXCEPT ![t] = "stabilize"]
            /\ Silent
            /\ UNCHANGED <<card_present, cache, clock, outcome>>
         \/ /\ o = "none"
            /\ broadcast_event(Error("CARD_READ_ERROR"))
            /\ pc' = [pc EXCEPT ![t] = Return(t)]
            /\ Ended(t, "error")
            /\ handles' = Collect(handles, reader, hnd', made)
            /\ NoDisconnect
            /\ UNCHANGED <<reader, card_present, cache, clock>>
    /\ NoReply
    /\ UNCHANGED <<phys, mon, made, auth>>

\* card_monitor.py 258-303 and 340-348: the worker thread's read_card ends
\* with outcome o (the record, or a fault) and the coroutine resumes.
ReadResult(t, o) ==
    /\ pc[t] = "reading"
    /\ o \in ReadOutcomes(hnd[t])
    /\ hnd' = [hnd EXCEPT ![t] = 0]
    /\ arg' = [arg EXCEPT ![t] = FALSE]
    /\   \/ /\ o = "ok"
            /\ clock < MaxClock
            /\ clock' = clock + 1
            /\ last_card_data' = [ins |-> physIns, photo |-> arg[t]]
            /\ cache_valid' = TRUE
            /\ last_read_timestamp' = clock'
            /\ broadcast_event(CardRead(last_card_data', FALSE, last_read_timestamp'))
            /\ pc' = [pc EXCEPT ![t] = Return(t)]
            /\ Ended(t, "card_read")
            /\ handles' = Collect(handles, reader, hnd', made)
            /\ NoDisconnect
            /\ UNCHANGED <<reader, card_present>>
         \/ /\ o \in Recoverable
            /\ reader' = 0
            /\ handles' = Collect(disconnect(handles, reader), reader', hnd', made)
            /\ disconnected' = reader
            /\ pc' = [pc EXCEPT ![t] = "stabilize"]
            /\ Silent
            /\ UNCHANGED <<card_present, cache, clock, outcome>>
         \/ /\ o = "Exception"
            /\ broadcast_event(Error("CARD_READ_ERROR"))
            /\ pc' = [pc EXCEPT ![t] = Return(t)]
            /\ Ended(t, "error")
            /\ handles' = Collect(handles, reader, hnd', made)
            /\ NoDisconnect
            /\ UNCHANGED <<reader, card_present, cache, clock>>
    /\ NoReply
    /\ UNCHANGED <<phys, mon, made, auth>>

ReadComplete(t) == \E o \in {"ok"} \cup Faults : ReadResult(t, o)

\* card_monitor.py 305-338: after the stabilization sleep, one connect.
Reconnect(t) ==
    /\ pc[t] = "stabilize"
    /\ \E o \in ConnectOutcomes :
         \/ /\ o = "ok"
            /\ CanConnect
            /\ reader' = NewHandle
            /\ made' = [made EXCEPT ![t] = NewHandle]
            /\ handles' = Collect([handles EXCEPT ![NewHandle] = "open"], reader', hnd, made')
            /\ card_present' = TRUE
            /\ pc' = [pc EXCEPT ![t] = "settle"]
            /\ Silent
            /\ UNCHANGED outcome
         \/ /\ o # "ok"
            /\ card_present' = FALSE
            /\ broadcast_event(CardRemoved)
            /\ pc' = [pc EXCEPT ![t] = Return(t)]
            /\ Ended(t, "card_removed")
            /\ UNCHANGED <<reader, handles, made>>
    /\ NoReply /\ NoDisconnect
    /\ UNCHANGED <<phys, mon, cache, hnd, arg, clock, auth>>

\* card_monitor.py 316-327: after the second sleep, the reconnected status.
Reconnected(t) ==
    /\ pc[t] = "settle"
    /\ broadcast_event(ReaderStatus("reconnected"))
    /\ pc' = [pc EXCEPT ![t] = Return(t)]
    /\ Ended(t, "reader_status")
    /\ made' = [made EXCEPT ![t] = 0]
    /\ handles' = Collect(handles, reader, hnd, made')
    /\ NoReply /\ NoDisconnect
    /\ UNCHANGED <<phys, reader, card_present, mon, cache, hnd, arg, clock, auth>>

\* --------------------------------------------------- routes/api.read_card
CardReadResponse(success, data, error) == [success |-> success, data |-> data, error |-> error]

\* read_card without its card_present check (lines 137-143 dropped).
TriggerReadUnchecked(c, include_photo) ==
    /\ pc[c] = "idle"
    /\ ReadBegin(c, include_photo)
    /\ response' = NoResponse
    /\ cleared' = None
    /\ NoDisconnect
    /\ UNCHANGED <<phys, conn, mon, cache, made, clock, auth>>

\* api.py 135-146: the status check, then read_and_broadcast to its first await.
TriggerRead(c, include_photo) ==
    /\ pc[c] = "idle"
    /\ IF ~card_present
       THEN /\ response' = CardReadResponse(FALSE, NoRec, "No card detected in reader")
            /\ Silent
            /\ UNCHANGED <<coro, outcome>>
       ELSE /\ ReadBegin(c, include_photo)
            /\ response' = NoResponse
    /\ cleared' = None
    /\ NoDisconnect
    /\ UNCHANGED <<phys, conn, mon, cache, made, clock, auth>>

\* api.py 148-166: the response is built from get_status()["last_read"],
\* with the photo bytes deleted.
Respond(c) ==
    /\ pc[c] = "respond"
    /\ response' = IF last_card_data # NoRec
                   THEN CardReadResponse(TRUE, [last_card_data EXCEPT !.photo = FALSE], "")
                   ELSE CardReadResponse(FALSE, NoRec, "Card read failed")
    /\ pc' = [pc EXCEPT ![c] = "idle"]
    /\ outcome' = [outcome EXCEPT ![c] = ""]
    /\ cleared' = None
    /\ Silent /\ NoDisconnect
    /\ UNCHANGED <<phys, conn, mon, cache, hnd, arg, made, clock, auth>>

\* ------------------------------------------------------------ clear_cache
\* clear_cache that also gives up the connection (disconnect and
\* self.reader = None added).
ClearCacheDisconnects ==
    /\ IF cache_valid \/ last_card_data # NoRec
       THEN /\ cache_valid' = FALSE
            /\ last_card_data' = NoRec
            /\ last_read_timestamp' = NoTime
            /\ cleared' = "True"
       ELSE /\ cleared' = "False"
            /\ UNCHANGED cache
    /\ reader' = 0
    /\ handles' = Collect(disconnect(handles, reader), reader', hnd, made)
    /\ disconnected' = reader
    /\ response' = NoResponse
    /\ Silent
    /\ UNCHANGED <<phys, card_present, mon, coro, req, clock, auth>>

\* clear_cache that only resets the validity flag (lines 397-398 dropped).
ClearCacheKeepsRecord ==
    /\ IF cache_valid \/ last_card_data # NoRec
       THEN /\ cache_valid' = FALSE
            /\ cleared' = "True"
            /\ UNCHANGED <<last_card_data, last_read_timestamp>>
       ELSE /\ cleared' = "False"
            /\ UNCHANGED cache
    /\ response' = NoResponse
    /\ Silent /\ NoDisconnect
    /\ UNCHANGED <<phys, conn, mon, coro, req, clock, auth>>

\* card_monitor.py 387-400, called by api.py 177-198.
ClearCache ==
    /\ IF cache_valid \/ last_card_data # NoRec
       THEN /\ cache_valid' = FALSE
            /\ last_card_data' = NoRec
            /\ last_read_timestamp' = NoTime
            /\ cleared' = "True"
       ELSE /\ cleared' = "False"
            /\ UNCHANGED cache
    /\ response' = NoResponse
    /\ Silent /\ NoDisconnect
    /\ UNCHANGED <<phys, conn, mon, coro, req, clock, auth>>

\* -------------------------------------------------------- stop_monitoring
\* stop_monitoring with self.reader = None inside the try block (line 98
\* moved up): a disconnect that raises leaves the handle in place.
StopMonitoringInsideTry ==
    /\ monitoring
    /\ monitoring' = FALSE
    /\ \E raised \in (IF reader # 0 THEN BOOLEAN ELSE {FALSE}) :
          reader' = IF raised THEN reader ELSE 0
    /\ handles' = Collect(disconnect(handles, reader), reader', hnd, made)
    /\ disconnected' = reader
    /\ Silent /\ NoReply
    /\ UNCHANGED <<phys, card_present, current_reader_name, auto_read_on_insert,
                   cache, coro, req, clock, auth>>

\* card_monitor.py 89-98.  disconnect may raise (line 96 swallows it); the
\* handle is dropped either way.
StopMonitoring ==
    /\ monitoring
    /\ monitoring' = FALSE
    /\ \E raised \in (IF reader # 0 THEN BOOLEAN ELSE {FALSE}) :
          reader' = 0
    /\ handles' = Collect(disconnect(handles, reader), reader', hnd, made)
    /\ disconnected' = reader
    /\ Silent /\ NoReply
    /\ UNCHANGED <<phys, card_present, current_reader_name, auto_read_on_insert,
                   cache, coro, req, clock, auth>>

\* One step of the environment, the polling loop or a REST read request of a
\* client in C.
Step(C) ==
    \/ PlugReader
    \/ UnplugReader
    \/ InsertCard
    \/ RemoveCard
    \/ StartMonitoring
    \/ PollWake
    \/ PollListFault
    \/ PollNoReaders
    \/ PollReaderConnected
    \/ \E t \in {Poll} \cup C : ReadComplete(t)
    \/ \E t \in {Poll} \cup C : Reconnect(t)
    \/ \E t \in {Poll} \cup C : Reconnected(t)
    \/ \E c \in C, include_photo \in BOOLEAN : TriggerRead(c, include_photo)
    \/ \E c \in C : Respond(c)

\* The polling loop in either mode, the environment, cache clears, stop, and
\* one REST read request at a time.
Next ==
    \/ Step({"c1"})
    \/ PollAutoRead
    \/ ClearCache
    \/ StopMonitoring

Spec == Init /\ [][Next]_vars

\* start_monitoring(poll_interval): the intervals a caller may pass, in
\* tenths of a second (the default 1.0 is 10).
Intervals == {5, 10}

\* A loop that always sleeps poll_interval (lines 82-84 dropped).
sleep_interval_fixed(poll_interval) == poll_interval

\* card_monitor.py 80-87: how long the loop sleeps after an iteration,
\* decided from the fields as the iteration left them.
sleep_interval(poll_interval) ==
    IF card_present /\ reader # 0
    THEN poll_interval * 5
    ELSE poll_interval

\* The next step of the polling loop's coroutine, whichever await it is
\* suspended in: its sleep, a broadcast, the worker thread of its automatic
\* read, or a sleep of that read's reconnect.
PollStep ==
    \/ PollWake
    \/ PollListFault
    \/ PollNoReaders
    \/ PollReaderConnected
    \/ PollAutoRead
    \/ ReadComplete(Poll)
    \/ Reconnect(Poll)
    \/ Reconnected(Poll)

\* The polling loop alone with the environment and stop_monitoring.  The
\* event loop resumes a coroutine whose await has completed, every sleep
\* ends and every driver call returns: the loop's pending step is taken if
\* it stays possible.
NextLive ==
    \/ PlugReader
    \/ UnplugReader
    \/ InsertCard
    \/ RemoveCard
    \/ StartMonitoring
    \/ PollStep
    \/ StopMonitoring

SpecLive == Init /\ [][NextLive]_vars /\ WF_vars(PollStep)

\* Two REST read requests that may overlap, with the service in its default
\* on-demand mode (auto_read_on_insert = False) and no cache clears.
InitConc == Init /\ ~auto_read_on_insert

NextConc ==
    \/ Step(Clients)
    \/ StopMonitoring

SpecConc == InitConc /\ [][NextConc]_vars

\* -------------------------------------------------------- PasscodeManager
\* A passcode is a string: a sequence of code points.  generate_passcode
\* draws from ascii_letters + digits ("A" and "7" stand for them); a caller
\* of validate_passcode may send any string (233 is a non-ASCII letter).
Alphabet == {65, 55}
AnyChar == Alphabet \cup {233}
Strings(chars) == UNION {[1..n -> chars] : n \in 0..MaxLen}

\* auth.py 46-47: every string of that length over the alphabet.
generate_passcode(length) == [1..length -> Alphabet]

\* json.dump of a string (ensure_ascii): quoted, with quote and backslash
\* escaped and every non-ASCII character written as a \u escape.
Escape(ch) ==
    IF ch = 34 \/ ch = 92 THEN <<92, ch>>
    ELSE IF ch < 128 THEN <<ch>>
    ELSE <<92, 117, ch>>

RECURSIVE EscapeAll(_)
EscapeAll(str) ==
    IF str = <<>> THEN <<>> ELSE Escape(Head(str)) \o EscapeAll(Tail(str))

json_dump_str(str) == <<34>> \o EscapeAll(str) \o <<34>>

\* json.load of such a string.
RECURSIVE Unescape(_)
Unescape(txt) ==
    IF txt = <<>> THEN <<>>
    ELSE IF Head(txt) = 92
    THEN IF txt[2] = 117
         THEN <<txt[3]>> \o Unescape(SubSeq(txt, 4, Len(txt)))
         ELSE <<txt[2]>> \o Unescape(SubSeq(txt, 3, Len(txt)))
    ELSE <<Head(txt)>> \o Unescape(Tail(txt))

json_load_str(txt) == Unescape(SubSeq(txt, 2, Len(txt) - 1))

\* auth.py 62-71: the JSON object written to the file, member by member.
json_dump(data) ==
    [passcode |-> json_dump_str(data.passcode), created_at |-> data.created_at]

json_load(text) ==
    [passcode |-> json_load_str(text.passcode), created_at |-> text.created_at]

\* auth.py 52-78: the file after save_passcode, and the dictionary returned.
save_passcode_data(passcode, at) == [passcode |-> passcode, created_at |-> at]
save_passcode(passcode, at) == {json_dump(save_passcode_data(passcode, at))}

\* auth.py 80-107: {} is None.
load_passcode ==
    IF passcode_file = {} THEN {}
    ELSE {json_load(text) : text \in passcode_file}

\* secrets.compare_digest on two str: TypeError unless both are ASCII.
IsAscii(str) == \A i \in DOMAIN str : str[i] < 128
compare_digest(a, b) ==
    IF IsAscii(a) /\ IsAscii(b)
    THEN (IF a = b THEN "True" ELSE "False")
    ELSE "TypeError"

\* auth.py 109-138.
validate_passcode(provided_passcode) ==
    IF load_passcode = {} THEN "False"
    ELSE LET stored_data == CHOOSE d \in load_passcode : TRUE
         IN  compare_digest(provided_passcode, stored_data.passcode)

\* auth.py 140-151: generate, save, return the dictionary saved.
RegeneratePasscode(length) ==
    /\ now < MaxTick
    /\ now' = now + 1
    /\ \E passcode \in generate_passcode(length) :
          /\ passcode_file' = save_passcode(passcode, now')
          /\ current' = {passcode}
          /\ result' = [op |-> "regenerate_passcode", arg |-> <<length>>,
                        ret |-> save_passcode_data(passcode, now').passcode]
    /\ UNCHANGED monitor

\* A call of validate_passcode with any string.
ValidatePasscode(provided_passcode) ==
    /\ result' = [op |-> "validate_passcode", arg |-> provided_passcode,
                  ret |-> validate_passcode(provided_passcode)]
    /\ UNCHANGED <<monitor, passcode_file, current, now>>

\* delete_passcode that reports the deletion without unlinking the file
\* (line 172 dropped).
DeletePasscodeKeepsFile ==
    /\ result' = [op |-> "delete_passcode", arg |-> <<>>,
                  ret |-> IF passcode_file # {} THEN "True" ELSE "False"]
    /\ current' = {}
    /\ UNCHANGED <<monitor, passcode_file, now>>

\* auth.py 163-180.
DeletePasscode ==
    /\ result' = [op |-> "delete_passcode", arg |-> <<>>,
                  ret |-> IF passcode_file # {} THEN "True" ELSE "False"]
    /\ passcode_file' = {}
    /\ current' = {}
    /\ UNCHANGED <<monitor, now>>

\* api.py 243: the lengths POST /api/passcode/generate accepts.
MinLength == 8
MaxLength == 16

\* The lengths a caller sends: the first ones outside the range on both
\* sides, and the shortest accepted one.
EndpointLengths == {MinLength - 1, MinLength, MaxLength + 1}

\* A response of the endpoint: its HTTP status and the passcode in its body
\* (the empty string when the response is an error).
Reply(status, passcode) == [status |-> status, passcode |-> passcode]

\* api.py 230-263: generate_new_passcode(length).  The HTTPException(400) of
\* lines 244-247 is raised inside the try block, so the except Exception
\* clause of line 261 catches it and raises HTTPException(500) in its place.
GenerateNewPasscode(length) ==
    IF length < MinLength \/ length > MaxLength
    THEN /\ result' = [op |-> "generate_new_passcode", arg |-> <<length>>,
                       ret |-> Reply(500, <<>>)]
         /\ UNCHANGED <<monitor, passcode_file, current, now>>
    ELSE /\ now < MaxTick
         /\ now' = now + 1
         /\ \E passcode \in generate_passcode(length) :
               /\ passcode_file' = save_passcode(passcode, now')
               /\ current' = {passcode}
               /\ result' = [op |-> "generate_new_passcode", arg |-> <<length>>,
                             ret |-> Reply(200, save_passcode_data(passcode, now').passcode)]
         /\ UNCHANGED monitor

\* The passcode store alone, the monitor idle.
InitAuth == Init /\ ~auto_read_on_insert

NextAuth ==
    \/ \E length \in 1..MaxLen : RegeneratePasscode(length)
    \/ \E provided_passcode \in Strings(AnyChar) : ValidatePasscode(provided_passcode)
    \/ DeletePasscode

SpecAuth == InitAuth /\ [][NextAuth]_vars

\* The generation endpoint and deletions, on the same store.
NextApi ==
    \/ \E length \in EndpointLengths : GenerateNewPasscode(length)
    \/ DeletePasscode

SpecApi == InitAuth /\ [][NextApi]_vars

\* ------------------------------------------------------------ properties
\* No coroutine is between two of its awaits.
Quiescent ==
    /\ pc[Poll] \in {"init", "sleep", "done"}
    /\ \A c \in Clients : pc[c] = "idle"

\* The last step broadcast an event of this type (and tag).
Emitted(type) == \E i \in DOMAIN emitted : emitted[i].type = type
EmittedTag(type, tag) ==
    \E i \in DOMAIN emitted : emitted[i].type = type /\ emitted[i].tag = tag

\* A card is seated in a plugged reader.
Reachable == attached # None /\ cardSeated

\* card_monitor.py 359-371: what a status query reports.
get_status ==
    [monitoring |-> monitoring,
     reader_name |-> current_reader_name,
     card_present |-> card_present,
     last_read |-> last_card_data]

\* A poll iteration in which list_readers returns its list.
Enumerates == StartMonitoring \/ (PollWake /\ monitoring)

\* Task t's worker thread returns the card's record in this step.
ReadSucceeds(t) == pc[t] = "reading" /\ pc'[t] # "reading" /\ clock' # clock


\* Task t enters read_and_broadcast in this step.
ReadEntered(t) ==
    IF t = Poll
    THEN pc[Poll] = "inserted" /\ pc'[Poll] # "inserted"
    ELSE pc[t] = "idle" /\ pc'[t] # "idle"

\* The stored record was read during the insertion that is still going on,
\* and no clear_cache dropped it since.
ReadThisInsertion ==
    /\ last_card_data # NoRec
    /\ last_card_data.ins = physIns
    /\ Reachable

\* The polling loop reaches the connect of _check_card_presence in this step.
PollConnects ==
    /\ \/ PollWake /\ monitoring /\ attached # None /\ attached = current_reader_name
       \/ PollReaderConnected
    /\ ~(card_present /\ reader # 0)

\* C1: a valid cache holds a record read during the current insertion, so no
\* read request, after a removal and a reinsertion, returns or broadcasts
\* the record of the insertion before: every CardRead event broadcast
\* carries a record of the insertion going on.
C1_NoRecordOfPriorInsertion ==
    \A i \in DOMAIN emitted :
        emitted[i].type = "card_read" => emitted[i].rec.ins = physIns

\* C2: once a hardware read succeeded in this insertion, with no removal and
\* no clear_cache since, a read request makes no driver call, changes no
\* monitor state, and broadcasts CardRead with that record, cached = true
\* and the timestamp of that read.
C2_CachedReadServed ==
    [][\A t \in Tasks :
          ReadEntered(t) /\ ReadThisInsertion =>
              /\ emitted' = <<CardRead(last_card_data, TRUE, last_read_timestamp)>>
              /\ pc'[t] = Return(t)
              /\ UNCHANGED <<conn, cache, mon, hnd, arg, clock>>]_vars

C2_Witness ==
    /\ EmittedTag("card_read", "cached")
    /\ ReadThisInsertion
    /\ last_read_timestamp # NoTime

\* C3: two manual read triggers that overlap while the cache is invalid make
\* one read_card call: never two worker threads reading at once.
C3_OneHardwareRead ==
    Cardinality({c \in Clients : pc[c] = "reading"}) <= 1

\* C4: between operations, a handle is held exactly when the monitor
\* considers a card present.
C4_HandleIffCardPresent ==
    Quiescent => (reader # 0 <=> card_present)

\* C5: no CardRead with cached = true is broadcast after a CardRemoved
\* unless a CardRead with cached = false came between them.
C5_NoCachedReadAfterRemoved ==
    EmittedTag("card_read", "cached") => ~removed_since_read

\* C6: in every prefix of the stream the CardRemoved events do not outnumber
\* the CardInserted events.
C6_RemovedNeverExceedsInserted ==
    balance >= 0

\* C7: between a read's recoverable fault and its reconnected status or
\* CardRemoved, the only connect attempt is the read's own: the polling
\* loop makes none.
C7_SingleConnectAttempt ==
    [][(\E t \in Tasks : pc[t] \in {"stabilize", "settle"}) => ~PollConnects]_vars

\* C8: when CardRemoved is broadcast, card_present is false, no handle is
\* held and the cache is invalid.
C8_RemovedClearsState ==
    Emitted("card_removed") => ~card_present /\ reader = 0 /\ ~cache_valid

\* C9: clear_cache returns true exactly when a cache entry existed (validity
\* or a stored record), leaves no entry, and called again at once returns
\* false.
C9_ClearCacheResult ==
    [][cleared' # None =>
          /\ cleared' = (IF cache_valid \/ last_card_data # NoRec THEN "True" ELSE "False")
          /\ ~cache_valid'
          /\ last_card_data' = NoRec
          /\ cleared # None => cleared' = "False"]_vars

C9_Witness ==
    /\ cleared = "True"
    /\ clock > 0
    /\ last_card_data = NoRec
    /\ ~cache_valid

\* C10: a manual read trigger while card_present is false returns the
\* failure "No card detected in reader", broadcasts nothing, calls no driver
\* operation and changes no state field.
C10_NoCardRejected ==
    [][\A c \in Clients, p \in BOOLEAN :
          TriggerRead(c, p) /\ ~card_present =>
              /\ response' = CardReadResponse(FALSE, NoRec, "No card detected in reader")
              /\ emitted' = <<>>
              /\ UNCHANGED <<conn, cache, mon, coro, clock>>]_vars

C10_Witness ==
    /\ response = CardReadResponse(FALSE, NoRec, "No card detected in reader")
    /\ ~card_present
    /\ emitted = <<>>

\* C11: the answer to a manual read trigger agrees with what the request
\* broadcast: the caller gets success = true with card data exactly when
\* the request's read_and_broadcast ended with a CardRead event, and a
\* failure when it ended with an Error, a reconnected status or a
\* CardRemoved, whatever record is still stored.  Stated for the answer
\* built right after the request's last broadcast, no other step between.
C11_ResponseAgreesWithBroadcast ==
    [][\A c \in Clients :
          pc[c] = "respond" /\ pc'[c] = "idle" /\ Emitted(outcome[c]) =>
              /\ response'.success <=> outcome[c] = "card_read"
              /\ response'.success => response'.data # NoRec]_vars

\* C12: when stop_monitoring returns no handle is held: disconnect was
\* called on the handle held at the call and reader is None, whether or not
\* disconnect raised.
C12_StopReleasesHandle ==
    [][monitoring /\ ~monitoring' =>
          /\ reader' = 0
          /\ reader # 0 => disconnected' = reader]_vars

C12_Witness ==
    /\ ~monitoring
    /\ reader = 0
    /\ disconnected # 0
    /\ emitted = <<>>
    /\ \A t \in Tasks : pc[t] # "stabilize"

\* C13: clear_cache sets validity to false and drops the record and the
\* timestamp, leaves handle, card_present, reader name and monitoring
\* unchanged and calls no driver operation; the read request that comes
\* next, with the card present on a held handle, starts read_card on that
\* handle and broadcasts no cached record.
C13_ClearCacheForcesHardwareRead ==
    [][/\ cleared' # None =>
            /\ ~cache_valid'
            /\ last_card_data' = NoRec
            /\ last_read_timestamp' = NoTime
            /\ disconnected' = 0
            /\ UNCHANGED <<conn, mon, coro, made>>
       /\ \A t \in Tasks :
            cleared # None /\ ReadEntered(t) /\ card_present /\ reader # 0 =>
                /\ pc'[t] = "reading"
                /\ hnd'[t] = reader
                /\ emitted' = <<>>]_vars

C13_Witness ==
    /\ pc["c1"] = "reading"
    /\ last_card_data = NoRec
    /\ clock > 0
    /\ card_present
    /\ hnd["c1"] = reader

C16_SuccessfulReadStored ==
    [][\A t \in Tasks :
          ReadSucceeds(t) =>
              /\ last_card_data' = [ins |-> physIns, photo |-> arg[t]]
              /\ cache_valid'
              /\ last_read_timestamp' = clock' /\ clock' > clock
              /\ emitted' = <<CardRead(last_card_data', FALSE, last_read_timestamp')>>
              /\ (get_status.last_read)' = last_card_data'
              /\ (get_status.card_present)']_vars

\* C17: no driver fault ends the monitoring loop: while monitoring is true
\* the loop is at one of its suspension points, from which it goes on to
\* its next poll iteration.
C17_LoopSurvivesFaults ==
    monitoring => pc[Poll] \notin {"init", "done"}

C17_Witness ==
    /\ monitoring
    /\ pc[Poll] = "stabilize"

\* C18: every CardRead of a hardware read on a handle comes after the
\* CardInserted or ReaderStatus(reconnected) of the connect that made the
\* handle: no read succeeds on a handle whose reconnected status is still
\* to be broadcast.
C18_CardReadAfterConnectEvent ==
    [][\A t \in Tasks :
          ReadSucceeds(t) => \A u \in Tasks : made[u] # hnd[t]]_vars

\* C19: validate_passcode(p) returns true exactly when a passcode is stored
\* and p equals it: after regenerate_passcode returned n, n validates true
\* and every other string, the passcodes issued before among them,
\* validates false, until the next regenerate or delete.
C19_ValidateIffStored ==
    result.op = "validate_passcode" =>
        result.ret = IF result.arg \in current THEN "True" ELSE "False"

ReadFaults(t) == pc[t] = "reading" /\ pc'[t] = "stabilize"
ReconnectSucceeds(t) == pc[t] = "stabilize" /\ pc'[t] = "settle"
ReconnectAnnounced(t) == pc[t] = "settle" /\ pc'[t] # "settle"

\* C21: when a hardware read fails with a recoverable fault and the single
\* reconnect succeeds, the handle the read ran on has been disconnected and
\* the reader field goes from it to no handle to the new handle,
\* card_present is true, the validity flag is not raised, and the request
\* emits ReaderStatus(reconnected) and neither CardRemoved nor CardRead.
C21_ReconnectAfterFault ==
    [][\A t \in Tasks :
         /\ ReadFaults(t) =>
              /\ disconnected' = hnd[t] \/ handles[hnd[t]] = "closed"
              /\ reader' = 0
              /\ emitted' = <<>>
              /\ cache_valid' = cache_valid
         /\ ReconnectSucceeds(t) =>
              /\ reader' = made'[t] /\ reader' # 0
              /\ handles'[reader'] = "open"
              /\ card_present'
              /\ emitted' = <<>>
              /\ cache_valid' = cache_valid
         /\ ReconnectAnnounced(t) =>
              /\ emitted' = <<ReaderStatus("reconnected")>>
              /\ cache_valid' = cache_valid
              /\ t \in Clients => outcome'[t] = "reader_status"]_vars

\* C22: a read request entered while the cache is not valid and no handle is
\* held emits exactly one Error event with code NO_READER_CONNECTION, makes
\* no driver call (no read is started, nothing is connected or
\* disconnected) and leaves the monitor's state unchanged.
C22_NoReaderConnection ==
    [][\A t \in Tasks :
         ReadEntered(t) /\ ~cache_valid /\ reader = 0 =>
            /\ emitted' = <<Error("NO_READER_CONNECTION")>>
            /\ pc'[t] = Return(t)
            /\ disconnected' = 0
            /\ UNCHANGED <<conn, cache, mon, hnd, arg, made, clock>>]_vars

C22_Witness ==
    \E c \in Clients :
        /\ pc[c] = "respond" /\ outcome[c] = "error"
        /\ emitted = <<Error("NO_READER_CONNECTION")>>
        /\ reader = 0 /\ ~cache_valid

\* A step of the polling loop that runs _check_readers or resumes it.
PollIterates == Enumerates \/ PollReaderConnected

\* C23: while a handle is held and a card is considered present, a poll
\* iteration that finds a reader only enumerates: it connects and
\* disconnects nothing, emits neither CardInserted nor CardRemoved, and
\* leaves the handle, card_present and the snapshot unchanged; a CardRemoved
\* event emitted from such a state therefore comes from a read request's
\* failed reconnect.
C23_PollSkipsWhileHeld ==
    [][/\ PollIterates /\ card_present /\ reader # 0 /\ attached # None =>
            /\ disconnected' = 0
            /\ ~Emitted("card_inserted")' /\ ~Emitted("card_removed")'
            /\ pc'[Poll] \in {"sleep", "reader_connected"}
            /\ UNCHANGED <<conn, cache>>
       /\ card_present /\ reader # 0 /\ Emitted("card_removed")' =>
            \E t \in Tasks : pc[t] = "stabilize" /\ pc'[t] = Return(t)]_vars

C23_Witness ==
    /\ EmittedTag("reader_status", "reader_connected")
    /\ pc[Poll] = "reader_connected"
    /\ card_present /\ reader # 0 /\ handles[reader] = "open"

\* Task t's hardware read ends with a data-read or command-level fault.
ReadFailure(t) == ReadResult(t, "DataReadError") \/ ReadResult(t, "CommandError")

\* C24 (as stated): a hardware read that fails with a data-read or
\* command-level fault is surfaced as an Error event, and the held handle is
\* kept (not disconnected or replaced) and card_present is unchanged.
C24_ReadFailureKeepsHandle ==
    [][\A t \in Tasks :
         ReadFailure(t) =>
            /\ Emitted("error")'
            /\ disconnected' = 0
            /\ UNCHANGED <<reader, card_present>>]_vars

\* C24 (amended): a hardware read that fails with a data-read or
\* command-level fault is handled like a lost connection: no event is
\* emitted at the fault, the handle held in the reader field is disconnected
\* and dropped, card_present is unchanged, and the request goes on to its
\* one reconnect attempt.
C24_ReadFailureReconnects ==
    [][\A t \in Tasks :
         ReadFailure(t) =>
            /\ emitted' = <<>>
            /\ reader' = 0
            /\ disconnected' = reader
            /\ reader # 0 => handles'[reader] \in {"closed", "free"}
            /\ pc'[t] = "stabilize"
            /\ UNCHANGED <<card_present, cache>>]_vars

\* The card has been reachable since the first insertion and only this
\* request has used the handle, so the read that faulted ran on a live
\* connection.
C24_Witness ==
    /\ pc["c1"] = "stabilize"
    /\ disconnected # 0 /\ reader = 0
    /\ Reachable /\ physIns = 1
    /\ monitoring /\ ~auto_read_on_insert
    /\ card_present

\* C25: a hardware read that fails with a fault outside the recoverable set
\* emits one Error event with code CARD_READ_ERROR and leaves the handle,
\* card_present, the reader name, the snapshot and its validity unchanged;
\* the request returns without a reconnect attempt.
C25_OtherFaultLeavesState ==
    [][\A t \in Tasks :
         ReadResult(t, "Exception") =>
            /\ emitted' = <<Error("CARD_READ_ERROR")>>
            /\ pc'[t] = Return(t)
            /\ disconnected' = 0
            /\ reader # 0 => handles'[reader] = handles[reader]
            /\ UNCHANGED <<reader, card_present, current_reader_name, cache>>]_vars

C25_Witness ==
    /\ emitted = <<Error("CARD_READ_ERROR")>>
    /\ pc["c1"] = "respond" /\ outcome["c1"] = "error"
    /\ reader # 0 /\ handles[reader] = "open"
    /\ card_present

\* C26: when no handle is held and a poll's connect succeeds, the monitor
\* owns the new handle, card_present is true and the step emits CardInserted,
\* the only one for that insertion; when the connect fails with a no-card or
\* connection fault and no card was considered present, nothing is emitted
\* and the state is unchanged.
C26_PollConnectAnnouncesOnce ==
    [][/\ PollConnects /\ reader = 0 /\ Reachable =>
            /\ reader' # 0 /\ handles'[reader'] = "open"
            /\ card_present'
            /\ emitted' = <<CardInserted>>
            /\ disconnected' = 0
            /\ ~announced
       /\ PollConnects /\ reader = 0 /\ ~Reachable /\ ~card_present =>
            /\ emitted' = <<>>
            /\ disconnected' = 0
            /\ UNCHANGED <<conn, cache, mon>>]_vars

\* C27: a hardware read in flight is never interrupted by another operation
\* on its handle: while task t's read_card is executing on a handle, no
\* step of another component calls disconnect on that handle or starts a
\* second read_card on it.
C27_ReadNotInterrupted ==
    [][\A t \in Tasks :
         pc[t] = "reading" /\ pc'[t] = "reading" =>
            /\ disconnected' # hnd[t]
            /\ \A u \in Tasks \ {t} :
                  pc[u] # "reading" /\ pc'[u] = "reading" => hnd'[u] # hnd[t]]_vars

\* C28: a hardware read does not block the presence-polling loop: while a
\* read_card call is in flight, whoever started it, the polling loop is not
\* the coroutine waiting for it, so its next iteration can run (and report
\* a reader removal) before the read completes.
C28_ReadDoesNotBlockPoll ==
    \A t \in Tasks : pc[t] = "reading" => pc[Poll] # "reading"

\* C30: once stop() has been called and the polling loop has exited, no
\* handle is held: whatever a poll iteration or a read's reconnect that was
\* suspended when stop() ran did since, the reader field is empty.
C30_NoHandleAfterExit ==
    ~monitoring /\ pc[Poll] = "done" => reader = 0

\* stop_monitoring has been called on a started loop.
Stopped == ~monitoring /\ pc[Poll] # "init"

\* C29: after stop() is called (and start is not called again) the polling
\* loop eventually exits: it finishes the step it is suspended in and its
\* sleep, sees monitoring false and ends without another iteration.  (A run
\* the bound on the event stream has cut short is left aside.)
C29_StopEndsLoop ==
    Stopped ~> (pc[Poll] = "done" \/ ~ENABLED PollStep)

C29_Witness ==
    /\ Stopped /\ pc[Poll] = "done"
    /\ current_reader_name # None

\* ------------------------------------------------------------------ C31..C35
\* A poll iteration ends in this step: the loop goes to its sleep.
IterationEnds ==
    /\ pc'[Poll] = "sleep"
    /\ \/ pc[Poll] # "sleep"
       \/ PollWake
       \/ PollListFault

\* C31: after each poll iteration the loop waits 5 x poll_interval if a
\* card is present with a handle held, and exactly poll_interval otherwise:
\* with no card considered present (no reader, or the reader idle), or with
\* card_present and no handle.
C31_AdaptiveInterval ==
    [][IterationEnds =>
         \A poll_interval \in Intervals :
            /\ card_present' /\ reader' # 0
                  => sleep_interval(poll_interval)' = 5 * poll_interval
            /\ ~card_present'
                  => sleep_interval(poll_interval)' = poll_interval
            /\ card_present' /\ reader' = 0
                  => sleep_interval(poll_interval)' = poll_interval]_vars

C31_Witness ==
    /\ pc[Poll] = "sleep" /\ monitoring
    /\ emitted = <<CardInserted>>
    /\ card_present /\ reader # 0
    /\ sleep_interval(10) = 50

\* C32: the passcode-generation endpoint answers a requested length below 8
\* or above 16 with a 400 client error, generating nothing and leaving the
\* stored passcode unchanged; for a length in 8..16 it stores and returns a
\* new passcode of exactly that length.
C32_GenerateLengthChecked ==
    [][result'.op = "generate_new_passcode" =>
         LET length == result'.arg[1]
             reply == result'.ret
         IN  IF length < 8 \/ length > 16
             THEN /\ reply.status = 400
                  /\ reply.passcode = <<>>
                  /\ UNCHANGED <<passcode_file, current>>
             ELSE /\ reply.status = 200
                  /\ Len(reply.passcode) = length
                  /\ passcode_file' = save_passcode(reply.passcode, now')
                  /\ load_passcode' = {save_passcode_data(reply.passcode, now')}]_vars

\* C33: every handle created by a successful connect is disconnected before
\* the monitor stops referencing it: no step overwrites or drops the reader
\* field while it refers to a handle on which disconnect has not been
\* called.
C33_NoHandleLeak ==
    [][reader # 0 /\ reader' # reader =>
          disconnected' = reader \/ handles[reader] = "closed"]_vars

\* C34: CardInserted and CardRemoved strictly alternate in the broadcast
\* stream, starting with CardInserted: the stream never holds two
\* CardInserted events more than CardRemoved events, nor a CardRemoved event
\* more than CardInserted events.
C34_PresenceEventsAlternate ==
    balance \in {0, 1}

\* C35: a valid snapshot exists only while a card is considered present:
\* cache_valid implies card_present and a stored record.
C35_ValidCacheImpliesCardPresent ==
    cache_valid => card_present /\ last_card_data # NoRec

====
